---- MODULE Spec2Model ----
(***************************************************************************)
(* Node-side job admission and execution engine of the GoPine node agent:  *)
(* JobManager (queue, active set, completed set, dispatcher thread, worker *)
(* pool, job directories), BaseJob.execute, JobFactory.create_job, the     *)
(* NodeAgent main loop (registration, heartbeat, job request, result       *)
(* flush), the shutdown in NodeAgent.run and the ResourceMonitor.          *)
(*                                                                         *)
(* The threads of control are interleaved: the asyncio main loop (Main*    *)
(* actions), the dispatcher thread _worker_loop (Dispatch* actions), the   *)
(* ThreadPoolExecutor workers running _execute_job (Pool*, Exec*, Slot*    *)
(* actions) and the sampling thread _monitor_loop (Monitor* actions).  A   *)
(* step is one stretch of code between two points where another thread can *)
(* observe or change the shared structures.                                *)
(***************************************************************************)
EXTENDS Integers, Sequences, FiniteSets, TLC

\* ------------------------------------------------------------------ bounds

\* Most jobs the server lets be unfinished on the node at once (queued, held by
\* the dispatcher, waiting in the pool or running in a slot).
MaxInFlight == 2

\* Longest list of assignments one request_jobs response carries.
MaxBatch == 2

\* The configured concurrent_jobs (JobManager.__init__ argument, any int >= 1;
\* the default configuration has 2).
ConcurrentJobs == 1

\* The monitor's history_size (12 in the code: one minute of 5 s samples).
HistorySize == 2

\* ------------------------------------------------------- program constants

\* JobFactory.job_classes: the registered job types.
JobClasses == {"ocr", "pdf_parse"}

\* A missing or empty job_id / job_type (job_data.get(...) is falsy).
NoId == ""
NoType == ""

\* cleanup_after_job, as configured by default.
CleanupAfterJob == TRUE

\* Defaults of the resource limits: max_cpu_percent, max_memory_percent and
\* min_free_disk_space_mb.
MaxCpuPercent == 80
MaxMemoryPercent == 70
MinFreeDiskSpaceMb == 1000

\* ------------------------------------------------------------------ inputs

\* Readings the sampling thread can get: CPU %, memory %, free disk MB.
CpuSamples == {60, 80, 95}
MemorySamples == {50, 70, 90}
DiskSamples == {999, 1000, 2000}

\* Day names (strftime("%A")) and minutes of the day the clock can show.
DayNames == {"Monday", "Tuesday"}
ClockMinutes == {0, 7 * 60, 8 * 60, 10 * 60, 18 * 60, 20 * 60, 23 * 60 + 59}

\* strftime("%H:%M") of a minute of the day: the text "HH:MM", as its four
\* digits (the colon stands at the same place in every such text).
Strftime(t) == <<(t \div 60) \div 10, (t \div 60) % 10, (t % 60) \div 10, t % 10>>

\* Texts a configuration can give for the start and the end of the working
\* hours, in the "HH:MM" form of the default configuration.
ConfigTimes == {Strftime(8 * 60), Strftime(10 * 60), Strftime(18 * 60)}

\* The scheduling section of the default configuration (with the working
\* days the model has).
DefaultScheduling ==
    [working_hours_only |-> FALSE, working_days |-> DayNames,
     start |-> Strftime(18 * 60), end |-> Strftime(8 * 60)]

\* The scheduling sections a configuration file can hold.
Schedulings ==
    [working_hours_only : BOOLEAN, working_days : SUBSET DayNames,
     start : ConfigTimes, end : ConfigTimes]

\* The value of `now` before the first call of _can_process_jobs_now.
NoCall == [day |-> "none", time |-> Strftime(0)]

\* The assignments the server can send (and resend).  j1 has valid parameters
\* and the greater priority, j2 fails _validate_parameters, j4 names an
\* unregistered type, j5 has no job_type and the last one has no job_id.
Assignments ==
    { [job_id |-> "j1", job_type |-> "ocr",       priority |-> 5, parameters |-> "valid"],
      [job_id |-> "j2", job_type |-> "pdf_parse", priority |-> 1, parameters |-> "invalid"],
      [job_id |-> "j4", job_type |-> "bogus",     priority |-> 5, parameters |-> "valid"],
      [job_id |-> "j5", job_type |-> NoType,      priority |-> 5, parameters |-> "valid"],
      [job_id |-> NoId, job_type |-> "ocr",       priority |-> 5, parameters |-> "valid"] }

JobIds == {jd.job_id : jd \in Assignments} \ {NoId}

\* "No job": the value of a job variable that holds nothing.
NoJob == [job_id |-> NoId, job_type |-> NoType, priority |-> 0, parameters |-> "none"]

\* What _process_job can do for a job whose parameters are valid.
ProcessOutcomes == {"returns", "raises"}

\* ----------------------------------------------------------------- results

\* An absent entry of a job_id -> result dict.
NoResult == [status |-> "none", result |-> "", error |-> ""]

\* ---- results in the detail send_job_result looks at

\* text_content[:10000] keeps this many characters (server_api.py).
TextLimit == 10000

\* all_text[:10000] keeps this many characters (ocr_job.py).
OcrTextLimit == 10000

TruncationMark == "... [truncated]"

\* A text is `body` characters of recognised text, followed or not by the
\* truncation mark.
TextLen(t) == t.body + (IF t.mark THEN Len(TruncationMark) ELSE 0)

\* t[:k]; a mark that is cut through is ordinary characters from then on.
Slice(t, k) ==
    IF k >= TextLen(t) THEN t ELSE [body |-> k, mark |-> FALSE]

\* t + "... [truncated]"
Marked(t) == [body |-> TextLen(t), mark |-> TRUE]

\* Lengths of the text an OCR job recognises.
TextLengths == {0, 1, OcrTextLimit, OcrTextLimit + 1, OcrTextLimit + 2000}

\* OcrJob._process_job without its cut: "text_content": all_text
OcrTextContentWhole(n) == [body |-> n, mark |-> FALSE]

\* OcrJob._process_job, the "text_content" of its result for an all_text of n
\* characters.
OcrTextContent(n) ==
    IF n <= OcrTextLimit
    THEN Slice([body |-> n, mark |-> FALSE], OcrTextLimit)
    ELSE Marked(Slice([body |-> n, mark |-> FALSE], OcrTextLimit))

Stats == "processing_stats"

\* BaseJob.execute, what it returns when _process_job returned `result`.
CompletedData(result) ==
    [status |-> "completed", result |-> result, processing_stats |-> Stats]

\* BaseJob.execute, what it returns when a step raised an exception whose
\* str() is msg.
FailedData(msg) ==
    [status |-> "failed", error |-> [message |-> msg, details |-> "details"],
     processing_stats |-> Stats]

\* What an execution can return: an OCR result, a PDF result (no
\* text_content), a failure.
ResultDatas ==
    {CompletedData([text_content |-> OcrTextContent(n), pages_processed |-> 1]) :
        n \in TextLengths}
    \cup {CompletedData([pages_processed |-> 1])}
    \cup {FailedData(msg) : msg \in {"validation", "process"}}

EmptyDict == [k \in {} |-> ""]

\* d.get(k, default)
Get(d, k, default) == IF k \in DOMAIN d THEN d[k] ELSE default

NoResultData == [status |-> "none"]
NoMessage == [via |-> "none"]

SendOutcomes == {"200", "500", "raises"}

VARIABLES
    job_queue,       \* JobManager.job_queue: FIFO of job_data
    active_jobs,     \* keys of JobManager.active_jobs
    completed_jobs,  \* JobManager.completed_jobs: job_id -> result (NoResult: absent)
    job_dirs,        \* job_ids whose working directory <work_dir>/<job_id> exists
    dpc,             \* dispatcher thread: position in _worker_loop
    job_data,        \* dispatcher thread: the job_data it dequeued
    work_queue,      \* ThreadPoolExecutor: submitted _execute_job calls not yet started
    slots,           \* ThreadPoolExecutor workers: the _execute_job call each one runs
    is_registered,   \* NodeAgent.is_registered
    mpc,             \* main thread: position in main_loop, then in run()'s finally
    capacity,        \* request_jobs: the capacity handed to api.request_jobs
    jobs_left,       \* request_jobs: assignments of the response not yet handled
    job,             \* request_jobs: loop variable of `for job in jobs`
    add_job_ret,     \* value returned by the add_job call for `job`
    snapshot,        \* process_job_results: the entries of the copy returned by
                     \* get_completed_jobs that the loop has not finished with
    acked,           \* process_job_results: the job_id whose send_job_result has just
                     \* returned True (success), until remove_completed_job has run
    heartbeat_due,   \* time.time() - last_heartbeat_time >= heartbeat_interval
    is_running,      \* NodeAgent.is_running
    cpu_history,     \* ResourceMonitor.cpu_history
    memory_history,  \* ResourceMonitor.memory_history
    current_free_disk_space_mb,  \* ResourceMonitor.current_free_disk_space_mb
    avg_cpu_percent,     \* ResourceMonitor.avg_cpu_percent, as the fraction sum / n
    avg_memory_percent,  \* ResourceMonitor.avg_memory_percent, as the fraction sum / n
    monitor_pc,          \* sampling thread: position in _monitor_loop
    scheduling,      \* config.node_agent.scheduling
    now,             \* datetime.now() of the latest _can_process_jobs_now call
    can_process,     \* what that call returned
    result_data,     \* the result dict handed to ServerAPI.send_job_result, which
                     \* is the object the completed set holds (the copy of
                     \* get_completed_jobs is shallow)
    message,         \* the job_result message send_job_result built last
    send_ret         \* what send_job_result returned: "none", "true", "false"

ledger == <<job_queue, active_jobs, completed_jobs>>
dispatcherVars == <<dpc, job_data>>
poolVars == <<work_queue, slots>>
mainVars == <<is_registered, mpc, capacity, jobs_left, job, add_job_ret, snapshot, acked,
              heartbeat_due>>
monitorVars == <<cpu_history, memory_history, current_free_disk_space_mb,
                 avg_cpu_percent, avg_memory_percent, monitor_pc>>
windowVars == <<scheduling, now, can_process>>

reportVars == <<result_data, message, send_ret>>

vars == <<ledger, job_dirs, dispatcherVars, poolVars, mainVars, is_running, monitorVars,
          windowVars, reportVars>>

SlotIds == 1..ConcurrentJobs
IdleSlot == [job |-> NoJob, stage |-> "idle"]

\* Keys of the completed_jobs dict.
CompletedIds == {j \in JobIds : completed_jobs[j] # NoResult}

\* Keys of the copy that process_job_results still has to iterate.
Pending == {j \in JobIds : snapshot[j] # NoResult}

\* Jobs the node has accepted and not finished.
InFlight ==
    Len(job_queue) + (IF job_data = NoJob THEN 0 ELSE 1) + Len(work_queue)
      + Cardinality({s \in SlotIds : slots[s].stage # "idle"})

\* The fraction 0 / 1: the value 0.0 both averages start with.
ZeroAvg == [sum |-> 0, n |-> 1]

InitNode ==
    /\ job_queue = <<>>
    /\ active_jobs = {}
    /\ completed_jobs = [j \in JobIds |-> NoResult]
    /\ job_dirs = {}
    /\ dpc = "check"
    /\ job_data = NoJob
    /\ work_queue = <<>>
    /\ slots = [s \in SlotIds |-> IdleSlot]
    /\ is_registered = FALSE
    /\ mpc = "top"
    /\ capacity = 0
    /\ jobs_left = 0
    /\ job = NoJob
    /\ add_job_ret = "none"
    /\ snapshot = [j \in JobIds |-> NoResult]
    /\ acked = NoId
    /\ heartbeat_due = TRUE
    /\ is_running = TRUE
    /\ cpu_history = <<>>
    /\ memory_history = <<>>
    /\ current_free_disk_space_mb = 0
    /\ avg_cpu_percent = ZeroAvg
    /\ avg_memory_percent = ZeroAvg
    /\ monitor_pc = "sample"
    /\ now = NoCall
    /\ can_process = TRUE
    /\ message = NoMessage
    /\ send_ret = "none"

\* The node as constructed from the default configuration.
Init == InitNode /\ scheduling = DefaultScheduling /\ result_data = NoResultData

\* The node as constructed from any configuration of the scheduling.
WindowInit == InitNode /\ scheduling \in Schedulings /\ result_data = NoResultData

\* The server API about to be handed any result an execution can return.
ReportInit == InitNode /\ scheduling = DefaultScheduling /\ result_data \in ResultDatas

\* ------------------------------------------------------------- JobManager

\* Variant of has_capacity that is off by one (<= for <).
HasCapacityOffByOne == Cardinality(active_jobs) <= ConcurrentJobs

\* has_capacity(): len(active_jobs) < concurrent_jobs.
HasCapacity == Cardinality(active_jobs) < ConcurrentJobs

\* get_available_capacity(): max(0, concurrent_jobs - len(active_jobs)).
AvailableCapacity ==
    IF ConcurrentJobs - Cardinality(active_jobs) > 0
    THEN ConcurrentJobs - Cardinality(active_jobs) ELSE 0

\* Variant of add_job whose duplicate check looks at active_jobs alone.
AddJobIgnoringCompleted(jd) ==
    IF jd.job_id = NoId \/ jd.job_id \in active_jobs
    THEN /\ add_job_ret' = "false"
         /\ UNCHANGED job_queue
    ELSE /\ job_queue' = Append(job_queue, jd)
         /\ add_job_ret' = "true"

\* Variant of add_job without the test for a job_id.
AddJobWithoutIdTest(jd) ==
    IF jd.job_id \in active_jobs \/ jd.job_id \in CompletedIds
    THEN /\ add_job_ret' = "false"
         /\ UNCHANGED job_queue
    ELSE /\ job_queue' = Append(job_queue, jd)
         /\ add_job_ret' = "true"

\* add_job(jd): False without a job_id; False when the job_id is a key of
\* active_jobs or completed_jobs; otherwise put on the queue and True.  The
\* queue itself is not consulted.
AddJob(jd) ==
    IF jd.job_id = NoId
    THEN /\ add_job_ret' = "false"
         /\ UNCHANGED job_queue
    ELSE IF jd.job_id \in active_jobs \/ jd.job_id \in CompletedIds
    THEN /\ add_job_ret' = "false"
         /\ UNCHANGED job_queue
    ELSE /\ job_queue' = Append(job_queue, jd)
         /\ add_job_ret' = "true"

\* Variant of the queue that hands out the entry with the greatest priority
\* first (a priority queue), the oldest among equals.
QueueGetByPriority(q) ==
    LET best == CHOOSE i \in 1..Len(q) :
                    /\ \A k \in 1..Len(q) : q[k].priority <= q[i].priority
                    /\ \A k \in 1..(i - 1) : q[k].priority < q[i].priority
    IN  <<q[best], SubSeq(q, 1, best - 1) \o SubSeq(q, best + 1, Len(q))>>

\* Queue.get(block=False) on a non-empty queue: <<item, rest>>.
QueueGet(q) == <<Head(q), Tail(q)>>

\* JobFactory.create_job: ValueError for a type that is not registered; the
\* caller raises the same for a missing type.
CanCreateJob(jd) == jd.job_type # NoType /\ jd.job_type \in JobClasses

\* remove_completed_job(j): delete the key when present.
RemoveCompleted(c, j) == [c EXCEPT ![j] = NoResult]

\* JobManager.lock is held by the main thread from the duplicate check of
\* add_job to the return of the status notification it awaits inside the
\* `with self.lock` block.  Every other use of the lock begins and ends
\* within one step.
LockHeldByMain == mpc = "notify"

\* JobManager.is_running: set by start(), cleared when stop() is entered.
JmRunning == mpc \notin {"join", "shutdown", "monitor_stop", "done"}

\* executor.shutdown() has been called: submit raises RuntimeError from then on.
ExecutorShutdown == mpc \in {"shutdown", "monitor_stop", "done"}

\* ------------------------------------------------------ BaseJob.execute

\* Variant of execute that skips _validate_parameters.
ExecuteWithoutValidation(jd, proc) ==
    IF proc = "raises"
    THEN [status |-> "failed", result |-> "", error |-> "process"]
    ELSE [status |-> "completed", result |-> jd.job_id, error |-> ""]

\* Variant of execute whose failed results do not carry the message of the
\* exception.
ExecuteLosingMessage(jd, proc) ==
    IF jd.parameters # "valid" \/ proc = "raises"
    THEN [status |-> "failed", result |-> "", error |-> ""]
    ELSE [status |-> "completed", result |-> jd.job_id, error |-> ""]

\* execute(): _validate_parameters, _prepare_input and _process_job run inside
\* one try; any exception of theirs becomes a "failed" result carrying its
\* message, a normal return a "completed" result carrying the payload.
Execute(jd, proc) ==
    IF jd.parameters # "valid"
    THEN [status |-> "failed", result |-> "", error |-> "validation"]
    ELSE IF proc = "raises"
    THEN [status |-> "failed", result |-> "", error |-> "process"]
    ELSE [status |-> "completed", result |-> jd.job_id, error |-> ""]

\* --------------------------------------------- dispatcher (_worker_loop)

\* Variant of the top of an iteration that goes for the queue without asking
\* has_capacity.
DispatchCheckWithoutGate ==
    /\ dpc = "check"
    /\ JmRunning
    /\ dpc' = "get"
    /\ UNCHANGED <<job_data, ledger, job_dirs, poolVars, mainVars, is_running, monitorVars, windowVars, reportVars>>

\* Top of an iteration while the manager is running: without capacity sleep
\* and start over.
DispatchCheck ==
    /\ dpc = "check"
    /\ JmRunning
    /\ ~LockHeldByMain
    /\ dpc' = IF HasCapacity THEN "get" ELSE "check"
    /\ UNCHANGED <<job_data, ledger, job_dirs, poolVars, mainVars, is_running, monitorVars, windowVars, reportVars>>

\* Non-blocking get: an empty queue sends the loop back to the top; a job
\* without job_id is skipped; otherwise the job directory is created.
DispatchGet ==
    /\ dpc = "get"
    /\ IF job_queue = <<>>
       THEN /\ dpc' = "check"
            /\ UNCHANGED <<job_data, job_queue, job_dirs>>
       ELSE LET got == QueueGet(job_queue) IN
            /\ job_queue' = got[2]
            /\ IF got[1].job_id = NoId
               THEN dpc' = "check" /\ UNCHANGED <<job_data, job_dirs>>
               ELSE /\ dpc' = "prepare"
                    /\ job_data' = got[1]
                    /\ job_dirs' = job_dirs \cup {got[1].job_id}
    /\ UNCHANGED <<active_jobs, completed_jobs, poolVars, mainVars, is_running, monitorVars, windowVars, reportVars>>

\* Variant of the preparation that tracks the job before it creates it.
DispatchPrepareTrackingFirst ==
    /\ dpc = "prepare"
    /\ ~LockHeldByMain
    /\ active_jobs' = active_jobs \cup {job_data.job_id}
    /\ IF CanCreateJob(job_data)
       THEN dpc' = "submit" /\ UNCHANGED job_data
       ELSE dpc' = "check" /\ job_data' = NoJob
    /\ UNCHANGED <<job_queue, completed_jobs, job_dirs, poolVars, mainVars, is_running,
                   monitorVars, windowVars, reportVars>>

\* Create the job instance and track it in active_jobs; a missing or unknown
\* job_type raises, which is logged through _notify_job_failure and nothing
\* else.
DispatchPrepare ==
    /\ dpc = "prepare"
    /\ CanCreateJob(job_data) => ~LockHeldByMain
    /\ IF CanCreateJob(job_data)
       THEN /\ active_jobs' = active_jobs \cup {job_data.job_id}
            /\ dpc' = "submit"
            /\ UNCHANGED job_data
       ELSE /\ dpc' = "check"
            /\ job_data' = NoJob
            /\ UNCHANGED active_jobs
    /\ UNCHANGED <<job_queue, completed_jobs, job_dirs, poolVars, mainVars, is_running,
                   monitorVars, windowVars, reportVars>>

\* executor.submit(self._execute_job, job).  submit raises RuntimeError once
\* the executor is shut down, or when no worker thread can be started (ok
\* false); the exception lands in the same except branch as a failure to
\* create the job: it is logged and the iteration is over.
DispatchSubmit(ok) ==
    /\ dpc = "submit"
    /\ IF ok /\ ~ExecutorShutdown
       THEN work_queue' = Append(work_queue, job_data)
       ELSE UNCHANGED work_queue
    /\ job_data' = NoJob
    /\ dpc' = "check"
    /\ UNCHANGED <<ledger, job_dirs, slots, mainVars, is_running, monitorVars, windowVars, reportVars>>

DispatchNext ==
    \/ DispatchCheck
    \/ DispatchGet
    \/ DispatchPrepare
    \/ \E ok \in BOOLEAN : DispatchSubmit(ok)

\* ------------------------------------------- worker pool (_execute_job)

\* An idle worker takes the oldest submitted call and enters job.execute().
PoolStart(s) ==
    /\ slots[s].stage = "idle"
    /\ work_queue # <<>>
    /\ slots' = [slots EXCEPT ![s] = [job |-> Head(work_queue), stage |-> "run"]]
    /\ work_queue' = Tail(work_queue)
    /\ UNCHANGED <<ledger, job_dirs, dispatcherVars, mainVars, is_running, monitorVars, windowVars, reportVars>>

\* Variant of the return of job.execute() that stores the result and leaves
\* the deletion from active_jobs to a later moment.
ExecReturnStoreOnly(s, proc) ==
    /\ slots[s].stage = "run"
    /\ ~LockHeldByMain
    /\ LET jd == slots[s].job IN
       completed_jobs' = [completed_jobs EXCEPT ![jd.job_id] = Execute(jd, proc)]
    /\ slots' = [slots EXCEPT ![s].stage = "finally"]
    /\ UNCHANGED <<job_queue, active_jobs, job_dirs, dispatcherVars, work_queue,
                   mainVars, is_running, monitorVars, windowVars, reportVars>>

\* job.execute() returns: under the lock the result is stored under the job_id
\* and the job_id is deleted from active_jobs.
ExecReturn(s, proc) ==
    /\ slots[s].stage = "run"
    /\ ~LockHeldByMain
    /\ LET jd == slots[s].job IN
       /\ completed_jobs' = [completed_jobs EXCEPT ![jd.job_id] = Execute(jd, proc)]
       /\ active_jobs' = active_jobs \ {jd.job_id}
    /\ slots' = [slots EXCEPT ![s].stage = "finally"]
    /\ UNCHANGED <<job_queue, job_dirs, dispatcherVars, work_queue, mainVars, is_running,
                   monitorVars, windowVars, reportVars>>

\* An exception escapes inside the try of the slot: the job_id is deleted from
\* active_jobs and the failure is logged through _notify_job_failure.
ExecRaise(s) ==
    /\ slots[s].stage = "run"
    /\ ~LockHeldByMain
    /\ active_jobs' = active_jobs \ {slots[s].job.job_id}
    /\ slots' = [slots EXCEPT ![s].stage = "finally"]
    /\ UNCHANGED <<job_queue, completed_jobs, job_dirs, dispatcherVars, work_queue,
                   mainVars, is_running, monitorVars, windowVars, reportVars>>

\* _cleanup_job_files(j): rmtree of the job directory when it exists.
CleanupJobFiles(dirs, j) == dirs \ {j}

\* finally: with cleanup_after_job the job directory is deleted; task_done;
\* the event loop is closed and the worker is free again.
SlotFinally(s) ==
    /\ slots[s].stage = "finally"
    /\ job_dirs' = IF CleanupAfterJob
                   THEN CleanupJobFiles(job_dirs, slots[s].job.job_id)
                   ELSE job_dirs
    /\ slots' = [slots EXCEPT ![s] = IdleSlot]
    /\ UNCHANGED <<ledger, dispatcherVars, work_queue, mainVars, is_running, monitorVars, windowVars, reportVars>>

\* Variant of the finally branch in which a failing cleanup keeps the worker
\* from finishing.
SlotFinallyStuckOnCleanup(s) ==
    /\ slots[s].stage = "finally"
    /\ CleanupAfterJob
    /\ slots[s].job.job_id \in job_dirs
    /\ slots' = [slots EXCEPT ![s].stage = "cleanup"]
    /\ UNCHANGED <<ledger, job_dirs, dispatcherVars, work_queue, mainVars, is_running,
                   monitorVars, windowVars, reportVars>>

\* finally, with an rmtree that raises: _cleanup_job_files catches the
\* exception and logs a warning, the directory stays; task_done; the event
\* loop is closed and the worker is free again.
SlotFinallyCleanupFails(s) ==
    /\ slots[s].stage = "finally"
    /\ CleanupAfterJob
    /\ slots[s].job.job_id \in job_dirs
    /\ slots' = [slots EXCEPT ![s] = IdleSlot]
    /\ UNCHANGED <<ledger, job_dirs, dispatcherVars, work_queue, mainVars, is_running,
                   monitorVars, windowVars, reportVars>>

PoolNext ==
    \E s \in SlotIds :
        \/ PoolStart(s)
        \/ ExecRaise(s)
        \/ SlotFinally(s)
        \/ \E proc \in ProcessOutcomes : ExecReturn(s, proc)

\* -------------------------------------------------- NodeAgent.main_loop

\* What a call to the server can do: answer True, answer False, or raise.
CallOutcomes == {"true", "false", "raises"}

\* Variant of the registration step that registers on every iteration.
MainRegisterEveryIteration(ok) ==
    /\ mpc = "top"
    /\ is_running
    /\ is_registered' = ok
    /\ mpc' = IF ok THEN "heartbeat" ELSE "top"
    /\ UNCHANGED <<capacity, jobs_left, job, add_job_ret, snapshot, acked, heartbeat_due>>
    /\ UNCHANGED <<ledger, job_dirs, dispatcherVars, poolVars, is_running, monitorVars, windowVars, reportVars>>

\* Variant of the registration step that goes on with the iteration after a
\* failed attempt as well.
MainRegisterGoingOn(ok) ==
    /\ mpc = "top"
    /\ is_running
    /\ ~is_registered
    /\ is_registered' = ok
    /\ mpc' = "heartbeat"
    /\ UNCHANGED <<capacity, jobs_left, job, add_job_ret, snapshot, acked, heartbeat_due>>
    /\ UNCHANGED <<ledger, job_dirs, dispatcherVars, poolVars, is_running, monitorVars, windowVars, reportVars>>

\* Top of an iteration while unregistered: register_with_server, which sets
\* is_registered on success.  A failed attempt (the server answers no, or an
\* exception, caught inside) sleeps 30 s and starts the next iteration; after
\* a success the iteration goes on.
MainRegister(ok) ==
    /\ mpc = "top"
    /\ is_running
    /\ ~is_registered
    /\ is_registered' = ok
    /\ mpc' = IF ok THEN "heartbeat" ELSE "top"
    /\ UNCHANGED <<capacity, jobs_left, job, add_job_ret, snapshot, acked, heartbeat_due>>
    /\ UNCHANGED <<ledger, job_dirs, dispatcherVars, poolVars, is_running, monitorVars, windowVars, reportVars>>

\* The heartbeat step of an iteration of a registered agent (at the top of the
\* loop, or right after the registration succeeded).  When the heartbeat is
\* due it is sent: last_heartbeat_time is set when the transport returns, True
\* or False, and stays as it was when the call raises.  The outcome is ignored.
MainHeartbeat(out) ==
    /\ \/ mpc = "top" /\ is_running /\ is_registered
       \/ mpc = "heartbeat"
    /\ heartbeat_due' = (heartbeat_due /\ out = "raises")
    /\ mpc' = "request"
    /\ UNCHANGED <<is_registered, capacity, jobs_left, job, add_job_ret, snapshot, acked>>
    /\ UNCHANGED <<ledger, job_dirs, dispatcherVars, poolVars, is_running, monitorVars, windowVars, reportVars>>

\* Variant of the gates of request_jobs without the scheduling-window check.
MainRequestIgnoringWindow(accept, window) ==
    /\ mpc = "request"
    /\ mpc' = IF HasCapacity /\ accept THEN "capacity" ELSE "add"
    /\ UNCHANGED <<is_registered, capacity, jobs_left, job, add_job_ret, snapshot, acked,
                   heartbeat_due>>
    /\ UNCHANGED <<ledger, job_dirs, dispatcherVars, poolVars, is_running, monitorVars, windowVars, reportVars>>

\* request_jobs up to the try: has_capacity(), can_accept_jobs() (accept: what
\* the resource monitor answers at this moment) and _can_process_jobs_now()
\* (window).  When one of them is false request_jobs returns with no job to
\* add.
MainRequest(accept, window) ==
    /\ mpc = "request"
    /\ mpc' = IF HasCapacity /\ accept /\ window THEN "capacity" ELSE "add"
    /\ UNCHANGED <<is_registered, capacity, jobs_left, job, add_job_ret, snapshot, acked,
                   heartbeat_due>>
    /\ UNCHANGED <<ledger, job_dirs, dispatcherVars, poolVars, is_running, monitorVars, windowVars, reportVars>>

\* One of the three gates raises (a broken scheduling configuration, say):
\* they stand outside the try of request_jobs, so the exception reaches the
\* except branch of main_loop, which logs it and sleeps 5 s.
MainRaise ==
    /\ mpc = "request"
    /\ mpc' = "backoff"
    /\ UNCHANGED <<is_registered, capacity, jobs_left, job, add_job_ret, snapshot, acked,
                   heartbeat_due>>
    /\ UNCHANGED <<ledger, job_dirs, dispatcherVars, poolVars, is_running, monitorVars, windowVars, reportVars>>

\* capacity = get_available_capacity(), then the call to the server starts.
MainCapacity ==
    /\ mpc = "capacity"
    /\ capacity' = AvailableCapacity
    /\ mpc' = "await_jobs"
    /\ UNCHANGED <<is_registered, jobs_left, job, add_job_ret, snapshot, acked,
                   heartbeat_due>>
    /\ UNCHANGED <<ledger, job_dirs, dispatcherVars, poolVars, is_running, monitorVars, windowVars, reportVars>>

\* The server answers with n assignments (none when the call fails: the
\* transport returns an empty list, or raises, which request_jobs catches).
MainJobsReceived(n) ==
    /\ mpc = "await_jobs"
    /\ n <= MaxBatch
    /\ n + InFlight <= MaxInFlight
    /\ jobs_left' = n
    /\ capacity' = 0
    /\ mpc' = "add"
    /\ UNCHANGED <<is_registered, job, add_job_ret, snapshot, acked, heartbeat_due>>
    /\ UNCHANGED <<ledger, job_dirs, dispatcherVars, poolVars, is_running, monitorVars, windowVars, reportVars>>

\* One turn of `for job in jobs`: add_job(job), up to its return or, for a
\* job that was put on the queue, up to the status notification "queued",
\* which add_job awaits with the lock still held.
MainAdd(jd) ==
    /\ mpc = "add"
    /\ jobs_left > 0
    /\ job' = jd
    /\ AddJob(jd)
    /\ jobs_left' = jobs_left - 1
    /\ mpc' = IF add_job_ret' = "true" THEN "notify" ELSE "add"
    /\ UNCHANGED <<is_registered, capacity, snapshot, acked, heartbeat_due>>
    /\ UNCHANGED <<active_jobs, completed_jobs, job_dirs, dispatcherVars, poolVars,
                   is_running, monitorVars, windowVars, reportVars>>

\* _notify_job_status(job_id, "queued") returns: the lock is released and
\* add_job returns True.
MainNotified ==
    /\ mpc = "notify"
    /\ mpc' = "add"
    /\ UNCHANGED <<is_registered, capacity, jobs_left, job, add_job_ret, snapshot, acked,
                   heartbeat_due>>
    /\ UNCHANGED <<ledger, job_dirs, dispatcherVars, poolVars, is_running, monitorVars, windowVars, reportVars>>

\* Variant of the flush whose read empties the completed set (a drain).
MainFlushDraining ==
    /\ mpc = "add"
    /\ jobs_left = 0
    /\ job' = NoJob
    /\ add_job_ret' = "none"
    /\ snapshot' = completed_jobs
    /\ completed_jobs' = [j \in JobIds |-> NoResult]
    /\ mpc' = "report"
    /\ UNCHANGED <<is_registered, capacity, jobs_left, acked, heartbeat_due>>
    /\ UNCHANGED <<job_queue, active_jobs, job_dirs, dispatcherVars, poolVars, is_running,
                   monitorVars, windowVars, reportVars>>

\* End of request_jobs, start of process_job_results: get_completed_jobs()
\* copies the dict.
MainFlush ==
    /\ mpc = "add"
    /\ jobs_left = 0
    /\ job' = NoJob
    /\ add_job_ret' = "none"
    /\ snapshot' = completed_jobs
    /\ mpc' = "report"
    /\ UNCHANGED <<is_registered, capacity, jobs_left, acked, heartbeat_due>>
    /\ UNCHANGED <<ledger, job_dirs, dispatcherVars, poolVars, is_running, monitorVars, windowVars, reportVars>>

\* Variant of the report step that gives a result up when its report fails.
MainReportDroppingFailed(j, ok) ==
    /\ mpc = "report"
    /\ acked = NoId
    /\ j \in Pending
    /\ IF ok
       THEN acked' = j /\ UNCHANGED <<snapshot, completed_jobs>>
       ELSE /\ snapshot' = [snapshot EXCEPT ![j] = NoResult]
            /\ completed_jobs' = RemoveCompleted(completed_jobs, j)
            /\ UNCHANGED acked
    /\ UNCHANGED <<is_registered, mpc, capacity, jobs_left, job, add_job_ret, heartbeat_due>>
    /\ UNCHANGED <<job_queue, active_jobs, job_dirs, dispatcherVars, poolVars, is_running,
                   monitorVars, windowVars, reportVars>>

\* Variant of the report step without the try inside the loop: a report that
\* fails ends the loop over the copy and lands in the except branch of
\* main_loop.
MainReportAbortingOnFailure(j, ok) ==
    /\ mpc = "report"
    /\ acked = NoId
    /\ j \in Pending
    /\ IF ok
       THEN acked' = j /\ UNCHANGED <<snapshot, mpc>>
       ELSE /\ snapshot' = [snapshot EXCEPT ![j] = NoResult]
            /\ mpc' = "backoff"
            /\ UNCHANGED acked
    /\ UNCHANGED <<is_registered, capacity, jobs_left, job, add_job_ret, heartbeat_due>>
    /\ UNCHANGED <<ledger, job_dirs, dispatcherVars, poolVars, is_running, monitorVars, windowVars, reportVars>>

\* One turn of the loop over the copy, up to the return of
\* send_job_result(j, copy[j]).  On False or an exception (ok false) the turn
\* is over and nothing has changed; on True the removal is still to come.
MainReport(j, ok) ==
    /\ mpc = "report"
    /\ acked = NoId
    /\ j \in Pending
    /\ IF ok
       THEN acked' = j /\ UNCHANGED snapshot
       ELSE snapshot' = [snapshot EXCEPT ![j] = NoResult] /\ UNCHANGED acked
    /\ UNCHANGED <<is_registered, mpc, capacity, jobs_left, job, add_job_ret, heartbeat_due>>
    /\ UNCHANGED <<ledger, job_dirs, dispatcherVars, poolVars, is_running, monitorVars, windowVars, reportVars>>

\* After a successful report: remove_completed_job(job_id).
MainRemove ==
    /\ mpc = "report"
    /\ acked # NoId
    /\ completed_jobs' = RemoveCompleted(completed_jobs, acked)
    /\ snapshot' = [snapshot EXCEPT ![acked] = NoResult]
    /\ acked' = NoId
    /\ UNCHANGED <<is_registered, mpc, capacity, jobs_left, job, add_job_ret, heartbeat_due>>
    /\ UNCHANGED <<job_queue, active_jobs, job_dirs, dispatcherVars, poolVars, is_running,
                   monitorVars, windowVars, reportVars>>

\* Variant of the except branch of main_loop that gives up: the loop ends.
MainBackoffGivingUp(elapsed) ==
    /\ mpc = "backoff"
    /\ heartbeat_due' = (heartbeat_due \/ elapsed)
    /\ mpc' = "join"
    /\ UNCHANGED <<is_registered, capacity, jobs_left, job, add_job_ret, snapshot, acked>>
    /\ UNCHANGED <<ledger, job_dirs, dispatcherVars, poolVars, is_running, monitorVars, windowVars, reportVars>>

\* The except branch of main_loop: after the 5 s sleep the next iteration
\* starts (elapsed: the heartbeat interval has run out meanwhile).
MainBackoff(elapsed) ==
    /\ mpc = "backoff"
    /\ heartbeat_due' = (heartbeat_due \/ elapsed)
    /\ mpc' = "top"
    /\ UNCHANGED <<is_registered, capacity, jobs_left, job, add_job_ret, snapshot, acked>>
    /\ UNCHANGED <<ledger, job_dirs, dispatcherVars, poolVars, is_running, monitorVars, windowVars, reportVars>>

\* The copy is exhausted: sleep 1 s, next iteration.
MainSleep(elapsed) ==
    /\ mpc = "report"
    /\ Pending = {}
    /\ heartbeat_due' = (heartbeat_due \/ elapsed)
    /\ mpc' = "top"
    /\ UNCHANGED <<is_registered, capacity, jobs_left, job, add_job_ret, snapshot, acked>>
    /\ UNCHANGED <<ledger, job_dirs, dispatcherVars, poolVars, is_running, monitorVars, windowVars, reportVars>>

MainNext ==
    \/ \E ok \in BOOLEAN : MainRegister(ok)
    \/ \E out \in CallOutcomes : MainHeartbeat(out)
    \/ \E accept, window \in BOOLEAN : MainRequest(accept, window)
    \/ MainRaise
    \/ MainCapacity
    \/ \E n \in 0..MaxBatch : MainJobsReceived(n)
    \/ \E jd \in Assignments : MainAdd(jd)
    \/ MainNotified
    \/ MainFlush
    \/ \E j \in JobIds, ok \in BOOLEAN : MainReport(j, ok)
    \/ MainRemove
    \/ \E elapsed \in BOOLEAN : MainBackoff(elapsed) \/ MainSleep(elapsed)

\* --------------------------------------------------- stop and shutdown

\* NodeAgent.stop(), called from another thread while the agent runs.
AgentStop ==
    /\ is_running
    /\ JmRunning
    /\ is_running' = FALSE
    /\ UNCHANGED <<ledger, job_dirs, dispatcherVars, poolVars, mainVars, monitorVars, windowVars, reportVars>>

\* The loop test of main_loop finds is_running false: the loop ends, and the
\* finally of run() enters JobManager.stop(), which clears the manager's
\* is_running and starts to join the dispatcher thread.
MainExit ==
    /\ mpc = "top"
    /\ ~is_running
    /\ mpc' = "join"
    /\ UNCHANGED <<is_registered, capacity, jobs_left, job, add_job_ret, snapshot, acked,
                   heartbeat_due>>
    /\ UNCHANGED <<ledger, job_dirs, dispatcherVars, poolVars, is_running, monitorVars, windowVars, reportVars>>

\* worker_thread.join(timeout=5.0) returns: the dispatcher thread has ended,
\* or the 5 s have passed (timed_out).  executor.shutdown(wait=True) begins.
MainJoin(timed_out) ==
    /\ mpc = "join"
    /\ dpc = "exited" \/ timed_out
    /\ mpc' = "shutdown"
    /\ UNCHANGED <<is_registered, capacity, jobs_left, job, add_job_ret, snapshot, acked,
                   heartbeat_due>>
    /\ UNCHANGED <<ledger, job_dirs, dispatcherVars, poolVars, is_running, monitorVars, windowVars, reportVars>>

\* executor.shutdown(wait=True) returns: every submitted call has run to its
\* end and the workers have ended.  There is no timeout.
MainShutdown ==
    /\ mpc = "shutdown"
    /\ work_queue = <<>>
    /\ \A s \in SlotIds : slots[s].stage = "idle"
    /\ mpc' = "monitor_stop"
    /\ UNCHANGED <<is_registered, capacity, jobs_left, job, add_job_ret, snapshot, acked,
                   heartbeat_due>>
    /\ UNCHANGED <<ledger, job_dirs, dispatcherVars, poolVars, is_running, monitorVars, windowVars, reportVars>>

\* ResourceMonitor.stop(): clears the monitor's is_running and joins its
\* thread for at most 5 s; run() is over.
MainMonitorStop ==
    /\ mpc = "monitor_stop"
    /\ mpc' = "done"
    /\ UNCHANGED <<is_registered, capacity, jobs_left, job, add_job_ret, snapshot, acked,
                   heartbeat_due>>
    /\ UNCHANGED <<ledger, job_dirs, dispatcherVars, poolVars, is_running, monitorVars, windowVars, reportVars>>

\* The loop test of _worker_loop finds the manager's is_running false: the
\* dispatcher thread ends.
DispatchExit ==
    /\ dpc = "check"
    /\ ~JmRunning
    /\ dpc' = "exited"
    /\ UNCHANGED <<job_data, ledger, job_dirs, poolVars, mainVars, is_running, monitorVars, windowVars, reportVars>>

ShutdownNext ==
    \/ AgentStop
    \/ MainExit
    \/ \E timed_out \in BOOLEAN : MainJoin(timed_out)
    \/ MainShutdown
    \/ MainMonitorStop
    \/ DispatchExit

\* ------------------------------------------------------ ResourceMonitor

\* ResourceMonitor.is_running: cleared when stop() is entered.
MonitorRunning == mpc # "done"

RECURSIVE Sum(_)
\* sum(history).
Sum(h) == IF h = <<>> THEN 0 ELSE Head(h) + Sum(Tail(h))

\* Variant of the history that is cut one sample late (a window of
\* history_size + 1 samples).
WindowOffByOne(h, x) ==
    LET appended == Append(h, x)
    IN  IF Len(appended) > HistorySize + 1 THEN Tail(appended) ELSE appended

\* history.append(x), then pop(0) when the list is longer than history_size.
Window(h, x) ==
    LET appended == Append(h, x)
    IN  IF Len(appended) > HistorySize THEN Tail(appended) ELSE appended

\* Variant of the average that divides by the size of the window, full or
\* not.
AverageOverWindow(h) == [sum |-> Sum(h), n |-> HistorySize]

\* sum(history) / len(history), kept as a fraction.
Average(h) == [sum |-> Sum(h), n |-> Len(h)]

\* avg > limit for the fraction avg = sum / n (n > 0).
Exceeds(avg, limit) == avg.sum > limit * avg.n

\* Variant of can_accept_jobs that refuses at the thresholds too (>= and <=).
CanAcceptJobsStrict ==
    IF avg_cpu_percent.sum >= MaxCpuPercent * avg_cpu_percent.n THEN FALSE
    ELSE IF avg_memory_percent.sum >= MaxMemoryPercent * avg_memory_percent.n THEN FALSE
    ELSE IF current_free_disk_space_mb <= MinFreeDiskSpaceMb THEN FALSE
    ELSE TRUE

\* Variant of can_accept_jobs without the check of the free disk space.
CanAcceptJobsIgnoringDisk ==
    IF Exceeds(avg_cpu_percent, MaxCpuPercent) THEN FALSE
    ELSE IF Exceeds(avg_memory_percent, MaxMemoryPercent) THEN FALSE
    ELSE TRUE

\* can_accept_jobs(): the three checks in the order of the code.
CanAcceptJobs ==
    IF Exceeds(avg_cpu_percent, MaxCpuPercent) THEN FALSE
    ELSE IF Exceeds(avg_memory_percent, MaxMemoryPercent) THEN FALSE
    ELSE IF current_free_disk_space_mb < MinFreeDiskSpaceMb THEN FALSE
    ELSE TRUE

\* One turn of _monitor_loop with readings cpu, mem and disk: under the lock
\* the free-disk value is replaced, both histories take the sample and are cut
\* to history_size, and both averages are computed anew.  Then the sleep.
MonitorSample(cpu, mem, disk) ==
    /\ MonitorRunning
    /\ monitor_pc = "sample"
    /\ current_free_disk_space_mb' = disk
    /\ cpu_history' = Window(cpu_history, cpu)
    /\ memory_history' = Window(memory_history, mem)
    /\ avg_cpu_percent' = Average(cpu_history')
    /\ avg_memory_percent' = Average(memory_history')
    /\ monitor_pc' = "sleep"
    /\ UNCHANGED <<ledger, job_dirs, dispatcherVars, poolVars, mainVars, is_running,
                   windowVars, reportVars>>

\* Variant of a failing turn in which the CPU reading is stored as soon as it
\* is taken, before the reading that raises.
MonitorSampleFailsAfterCpu(cpu) ==
    /\ MonitorRunning
    /\ monitor_pc = "sample"
    /\ cpu_history' = Window(cpu_history, cpu)
    /\ avg_cpu_percent' = Average(cpu_history')
    /\ monitor_pc' = "sleep"
    /\ UNCHANGED <<memory_history, current_free_disk_space_mb, avg_memory_percent>>
    /\ UNCHANGED <<ledger, job_dirs, dispatcherVars, poolVars, mainVars, is_running,
                   windowVars, reportVars>>

\* A turn of _monitor_loop in which one of the three readings raises, the CPU
\* reading cpu taken or not: the readings are locals until the block under
\* the lock, which is not reached; the except branch logs and sleeps.
MonitorSampleFails(cpu) ==
    /\ MonitorRunning
    /\ monitor_pc = "sample"
    /\ monitor_pc' = "sleep"
    /\ UNCHANGED <<cpu_history, memory_history, current_free_disk_space_mb,
                   avg_cpu_percent, avg_memory_percent>>
    /\ UNCHANGED <<ledger, job_dirs, dispatcherVars, poolVars, mainVars, is_running,
                   windowVars, reportVars>>

\* time.sleep(check_interval_seconds) is over: the loop test, the next turn.
MonitorWake ==
    /\ MonitorRunning
    /\ monitor_pc = "sleep"
    /\ monitor_pc' = "sample"
    /\ UNCHANGED <<cpu_history, memory_history, current_free_disk_space_mb,
                   avg_cpu_percent, avg_memory_percent>>
    /\ UNCHANGED <<ledger, job_dirs, dispatcherVars, poolVars, mainVars, is_running,
                   windowVars, reportVars>>

MonitorNext ==
    \/ \E cpu \in CpuSamples, mem \in MemorySamples, disk \in DiskSamples :
           MonitorSample(cpu, mem, disk)
    \/ \E cpu \in CpuSamples : MonitorSampleFails(cpu)
    \/ MonitorWake

\* ---------------------------------------------------- scheduling window

\* a < b for two texts of the same length, as Python compares strings:
\* character by character from the left.
StrLess(a, b) ==
    \E i \in 1..Len(a) : a[i] < b[i] /\ \A k \in 1..(i - 1) : a[k] = b[k]

StrLeq(a, b) == a = b \/ StrLess(a, b)

\* Variant of _can_process_jobs_now without the overnight case.
CanProcessJobsNowSameDay(cfg, day_name, current_time) ==
    IF ~cfg.working_hours_only THEN TRUE
    ELSE IF day_name \notin cfg.working_days THEN FALSE
    ELSE StrLeq(cfg.start, current_time) /\ StrLeq(current_time, cfg.end)

\* _can_process_jobs_now() for the scheduling section cfg, the day name and
\* the "HH:MM" text of the moment: the comparisons are those of the texts.
CanProcessJobsNow(cfg, day_name, current_time) ==
    IF ~cfg.working_hours_only THEN TRUE
    ELSE IF day_name \notin cfg.working_days THEN FALSE
    ELSE IF StrLess(cfg.end, cfg.start)
    THEN StrLeq(cfg.start, current_time) \/ StrLeq(current_time, cfg.end)
    ELSE StrLeq(cfg.start, current_time) /\ StrLeq(current_time, cfg.end)

\* A call of _can_process_jobs_now() on day d at minute t of the day.
WindowQuery(d, t) ==
    /\ now' = [day |-> d, time |-> Strftime(t)]
    /\ can_process' = CanProcessJobsNow(scheduling, d, Strftime(t))
    /\ UNCHANGED <<ledger, job_dirs, dispatcherVars, poolVars, mainVars, is_running,
                   monitorVars, scheduling, reportVars>>

WindowNext == \E d \in DayNames, t \in ClockMinutes : WindowQuery(d, t)

\* ---------------------------------------------- ServerAPI.send_job_result

\* The "payload" of the message, as first built.
Payload(j, rd) ==
    [job_id |-> j,
     status |-> Get(rd, "status", "completed"),
     result |-> Get(rd, "result", EmptyDict),
     processing_stats |-> Get(rd, "processing_stats", EmptyDict)]

\* "text_content" in payload["result"] and len(text_content) > 10000
TooLarge(payload) ==
    /\ "text_content" \in DOMAIN payload.result
    /\ TextLen(payload.result.text_content) > TextLimit

\* text_content[:10000] + "... [truncated]"
Truncated(t) == Marked(Slice(t, TextLimit))

\* send_job_result(j, result_data).  ws: the websocket is connected and the
\* message is below 1 MB; out: what the transport does.  payload["result"]
\* is the very dict result_data["result"], so the assignment of the
\* truncated text writes into result_data as well.
SendJobResult(j, ws, out) ==
    /\ result_data # NoResultData
    /\ LET payload == Payload(j, result_data)
       IN  IF TooLarge(payload)
           THEN LET cut == Truncated(payload.result.text_content)
                IN  /\ message' = [via |-> IF ws THEN "ws" ELSE "http",
                                   payload |-> [payload EXCEPT !.result.text_content = cut]]
                    /\ result_data' = [result_data EXCEPT !.result.text_content = cut]
           ELSE /\ message' = [via |-> IF ws THEN "ws" ELSE "http", payload |-> payload]
                /\ UNCHANGED result_data
    /\ send_ret' = IF out = "raises" THEN "false"
                   ELSE IF ws THEN "true"
                   ELSE IF out = "200" THEN "true" ELSE "false"
    /\ UNCHANGED <<ledger, job_dirs, dispatcherVars, poolVars, mainVars, is_running,
                   monitorVars, windowVars>>

ReportNext ==
    \E j \in JobIds, ws \in BOOLEAN, out \in SendOutcomes : SendJobResult(j, ws, out)

\* ------------------------------------------------------- specifications

Next == MainNext \/ DispatchNext \/ PoolNext

\* The node while it runs: main loop, dispatcher and worker pool.
Spec == Init /\ [][Next]_vars

\* Every thread keeps running, the gates of request_jobs do not raise in
\* every iteration for ever, and the transport accepts a report of a job that
\* is offered again and again.  No fairness on ExecReturn / ExecRaise: whether
\* a capability returns is not up to the scheduler.
FairSpec ==
    /\ Spec
    /\ WF_vars(MainNext)
    /\ SF_vars(\E accept, window \in BOOLEAN : MainRequest(accept, window))
    /\ WF_vars(DispatchNext)
    /\ \A s \in SlotIds : WF_vars(PoolStart(s)) /\ WF_vars(SlotFinally(s))
    /\ \A j \in JobIds : SF_vars(MainReport(j, TRUE))

\* The dispatcher and the workers keep being scheduled, the dispatcher
\* getting the lock whenever it is free again and again; nothing is assumed
\* of the main thread, whose calls to the server may never return, nor of a
\* capability, which may never return either.
DispatchFairSpec ==
    /\ Spec
    /\ SF_vars(DispatchNext)
    /\ \A s \in SlotIds : WF_vars(PoolStart(s)) /\ WF_vars(SlotFinally(s))

StopNext == Next \/ ShutdownNext

\* The node with a stop request arriving at any moment.
StopSpec == Init /\ [][StopNext]_vars

\* The threads keep running through the shutdown as well.  Again no fairness
\* on ExecReturn / ExecRaise, and none on the stop request.
FairStopSpec ==
    /\ StopSpec
    /\ WF_vars(MainNext \/ MainExit \/ MainShutdown \/ MainMonitorStop
                 \/ \E timed_out \in BOOLEAN : MainJoin(timed_out))
    /\ WF_vars(DispatchNext \/ DispatchExit)
    /\ \A s \in SlotIds : WF_vars(PoolStart(s)) /\ WF_vars(SlotFinally(s))

CleanupNext == Next \/ \E s \in SlotIds : SlotFinallyCleanupFails(s)

\* The running node on a disk where the deletion of a job directory can fail.
CleanupSpec == Init /\ [][CleanupNext]_vars

\* The sampling thread of the resource monitor on its own.
MonitorSpec == Init /\ [][MonitorNext]_vars

\* The scheduling-window check on its own, for every configuration.
WindowSpec == WindowInit /\ [][WindowNext]_vars

\* A step in which a server that answers a request answers with at most as
\* many assignments as the capacity the request carried.
ObedientNext ==
    Next /\ (\A n \in 0..MaxBatch : MainJobsReceived(n) => n <= capacity)

\* The running node with such a server.
ObedientSpec == Init /\ [][ObedientNext]_vars

\* A step of the running node in which the gate of request_jobs gets from
\* can_accept_jobs() what the resource monitor holds at that moment, or a
\* turn of the sampling thread on a machine whose load is low: the free disk
\* space is what varies.
MeasuredNext ==
    \/ /\ Next
       /\ (\E accept, window \in BOOLEAN : MainRequest(accept, window))
              => \E window \in BOOLEAN : MainRequest(CanAcceptJobs, window)
    \/ \E disk \in DiskSamples :
           MonitorSample(CHOOSE c \in CpuSamples : \A d \in CpuSamples : c <= d,
                         CHOOSE m \in MemorySamples : \A d \in MemorySamples : m <= d,
                         disk)
    \/ \E cpu \in CpuSamples : MonitorSampleFails(cpu)
    \/ MonitorWake

\* The running node together with its resource monitor.
MeasuredSpec == Init /\ [][MeasuredNext]_vars

\* send_job_result on its own, called again and again for any result an
\* execution can return.
ReportSpec == ReportInit /\ [][ReportNext]_vars

\* ------------------------------------------------------------------ claims

\* How often job_id j is in the pending queue.
TimesQueued(j) == Cardinality({i \in 1..Len(job_queue) : job_queue[i].job_id = j})

\* How many of the queue, the active set and the completed set hold j, the
\* queue counted once per entry.
TimesHeld(j) ==
    TimesQueued(j) + (IF j \in active_jobs THEN 1 ELSE 0)
                   + (IF j \in CompletedIds THEN 1 ELSE 0)

\* C1: in every reachable state the active set has at most concurrent_jobs
\* entries.
C1_ActiveWithinLimit == Cardinality(active_jobs) <= ConcurrentJobs

\* C1 witness: the active set is full while a further job waits in the queue
\* and an earlier execution has completed.
C1_Witness ==
    /\ Cardinality(active_jobs) = ConcurrentJobs
    /\ job_queue # <<>>
    /\ CompletedIds # {}

\* C2 (as claimed): each job_id is held by at most one of the queue, the active
\* set and the completed set, and at most once by the queue.
C2_JobHeldOnce == \A j \in JobIds : TimesHeld(j) <= 1

\* C3: an add_job call for a job_id that is a key of the active set or of the
\* completed set returns False and leaves queue, active set and completed set
\* as they were.
C3_DuplicateRejected ==
    [][\A jd \in Assignments :
          (MainAdd(jd) /\ (jd.job_id \in active_jobs \/ jd.job_id \in CompletedIds))
              => (add_job_ret' = "false" /\ UNCHANGED ledger)]_vars

\* C3 witness: add_job has just returned False for a job whose result waits in
\* the completed set.
C3_Witness ==
    /\ mpc = "add"
    /\ add_job_ret = "false"
    /\ job.job_id \in CompletedIds

\* C4 (as claimed): a result held in the completed set changes or leaves only
\* in the remove_completed_job call that follows a successful report of that
\* very result.
C4_RemovedOnlyAfterReport ==
    [][\A j \in JobIds :
          (completed_jobs[j] # NoResult /\ completed_jobs'[j] # completed_jobs[j])
              => /\ acked = j
                 /\ snapshot[j] = completed_jobs[j]
                 /\ completed_jobs'[j] = NoResult]_vars

\* C5 (as claimed): every result that enters the completed set is eventually
\* reported with success: send_job_result returns True for that job with a
\* result of that status (a job's results differ by their status).
C5_EveryResultReported ==
    \A j \in JobIds, st \in {"completed", "failed"} :
        (completed_jobs[j].status = st) ~> (acked = j /\ snapshot[j].status = st)

\* C6 (as claimed, for the jobs with an unknown or missing job_type): an
\* accepted job that the dispatcher cannot create eventually has a failed
\* result in the completed set.
C6_FailureSurfaced ==
    \A j \in JobIds :
        (dpc = "prepare" /\ job_data.job_id = j /\ ~CanCreateJob(job_data))
            ~> (completed_jobs[j].status = "failed")

\* C7 (as claimed): a job whose parameters fail validation is never tracked in
\* the active set and never handed to or run by the worker pool.
C7_InvalidNeverInSlot ==
    /\ \A jd \in Assignments : jd.parameters # "valid" => jd.job_id \notin active_jobs
    /\ \A i \in 1..Len(work_queue) : work_queue[i].parameters = "valid"
    /\ \A s \in SlotIds : slots[s].stage = "run" => slots[s].job.parameters = "valid"

\* C7 (amended): validation runs inside execute() in a worker-pool slot, after
\* the dispatcher has put the job into the active set and handed it to the
\* pool.  (1) A job enters the pool only from the dispatcher, which put it into
\* the active set in the step before; (2) an execution of a job with invalid
\* parameters that returns stores a failed result with the validation error
\* and takes the job out of the active set; (3) such a result is stored only
\* by a slot that was running the job.
C7_ValidationInsideSlot ==
    [][/\ (dpc' = "submit" /\ dpc # "submit") => job_data'.job_id \in active_jobs'
       /\ Len(work_queue') > Len(work_queue)
              => (dpc = "submit" /\ work_queue' = Append(work_queue, job_data))
       /\ \A s \in SlotIds :
              ((\E proc \in ProcessOutcomes : ExecReturn(s, proc))
                      /\ slots[s].job.parameters # "valid")
                  => /\ completed_jobs'[slots[s].job.job_id]
                            = [status |-> "failed", result |-> "", error |-> "validation"]
                     /\ slots[s].job.job_id \notin active_jobs'
       /\ \A j \in JobIds :
              (completed_jobs'[j] # completed_jobs[j]
                      /\ completed_jobs'[j].error = "validation")
                  => \E s \in SlotIds : /\ slots[s].stage = "run"
                                        /\ slots[s].job.job_id = j
                                        /\ slots'[s].stage = "finally"]_vars

\* C7 witness: a slot has just finished a job with invalid parameters and the
\* failed result with the validation error is in the completed set.
C7_Witness ==
    \E s \in SlotIds :
        /\ slots[s].stage = "finally"
        /\ slots[s].job.parameters # "valid"
        /\ completed_jobs[slots[s].job.job_id].error = "validation"

\* C8 (as claimed): an execution that does not return is eventually ended by
\* the timeout: a failed, timeout-classified result is in the completed set and
\* the job has left the active set.  For every execution: it returns, or the
\* timeout handling happens.
C8_TimeoutFailsJob ==
    \A s \in SlotIds, j \in JobIds :
        (slots[s].stage = "run" /\ slots[s].job.job_id = j)
            ~> \/ slots[s].stage # "run"
               \/ /\ j \notin active_jobs
                  /\ completed_jobs[j].status = "failed"
                  /\ completed_jobs[j].error = "timeout"

\* C9: jobs are dispatched in the order add_job accepted them, whatever their
\* priority: add_job appends behind the entries already queued, the dispatcher
\* takes the oldest entry, and the job it then puts into the active set is the
\* one it took.
C9_FifoDispatch ==
    [][/\ Len(job_queue') > Len(job_queue)
              => (add_job_ret' = "true" /\ job_queue' = Append(job_queue, job'))
       /\ Len(job_queue') < Len(job_queue)
              => (job_queue' = Tail(job_queue) /\ job_data' = Head(job_queue))
       /\ active_jobs' \ active_jobs # {}
              => (dpc = "prepare" /\ active_jobs' = active_jobs \cup {job_data.job_id})]_vars

\* C9 witness: the dispatcher has taken a job and put it into the active set
\* while a job of greater priority, accepted later, is still queued.
C9_Witness ==
    /\ dpc = "submit"
    /\ job_data.job_id \in active_jobs
    /\ job_queue # <<>>
    /\ job_queue[1].priority > job_data.priority

\* C10: the dispatcher takes a job from the queue only after has_capacity()
\* answered true in the same iteration, and at that moment the active set is
\* still not full; while the active set is full no entry leaves the queue.
C10_DequeueOnlyWithCapacity ==
    [][/\ (dpc' = "get" /\ dpc # "get") => HasCapacity
       /\ Len(job_queue') < Len(job_queue)
              => (dpc = "get" /\ Cardinality(active_jobs) < ConcurrentJobs)]_vars

\* C10 witness: the active set is full, a job waits in the queue and the
\* dispatcher is at the top of its loop, where it finds no capacity.
C10_Witness ==
    /\ Cardinality(active_jobs) = ConcurrentJobs
    /\ job_queue # <<>>
    /\ dpc = "check"
    /\ ~HasCapacity

\* The executions of job_id j that are still to end: the call the dispatcher
\* is about to submit, the calls waiting in the pool and the calls running.
Executions(j) ==
    (IF dpc = "submit" /\ job_data.job_id = j THEN 1 ELSE 0)
      + Cardinality({i \in 1..Len(work_queue) : work_queue[i].job_id = j})
      + Cardinality({s \in SlotIds : slots[s].stage = "run" /\ slots[s].job.job_id = j})

\* C11 (as claimed): no entry of the active set outlives its execution: every
\* job_id in the active set has an execution that is still to end (about to
\* be handed to the pool, waiting in the pool, or running in a slot).
C11_ActiveHasExecution == \A j \in active_jobs : Executions(j) > 0

\* The holders of the working directory of job_id j: the dispatcher while it
\* works on j, the calls waiting in the pool and the slots that have not
\* finished with j.
DirHolders(j) ==
    (IF job_data.job_id = j THEN 1 ELSE 0)
      + Cardinality({i \in 1..Len(work_queue) : work_queue[i].job_id = j})
      + Cardinality({s \in SlotIds : slots[s].stage # "idle" /\ slots[s].job.job_id = j})

\* C12 (as claimed): with cleanup_after_job, a working directory exists only
\* while its job is being dispatched or executed: once the job has ended,
\* whatever the outcome, the directory is gone.
C12_DirDeletedAfterJob == CleanupAfterJob => \A j \in job_dirs : DirHolders(j) > 0

\* C13: the move of a job from the active set to the completed set is one
\* step.  A step that stores a result under job_id j leaves j outside the
\* active set, and a step that takes j out of the active set leaves a result
\* under j in the completed set, unless it is the exception branch of the
\* slot, which stores nothing.  No other thread sees a state in between.
C13_AtomicMove ==
    [][\A j \in JobIds :
          /\ (completed_jobs'[j] # completed_jobs[j] /\ completed_jobs'[j] # NoResult)
                 => j \notin active_jobs'
          /\ (j \in active_jobs /\ j \notin active_jobs')
                 => (completed_jobs'[j] # NoResult \/ \E s \in SlotIds : ExecRaise(s))]_vars

\* C13 witness: an execution has just returned a result: the slot has not
\* finished yet, the result is in the completed set and the job is no longer
\* in the active set.
C13_Witness ==
    \E s \in SlotIds :
        /\ slots[s].stage = "finally"
        /\ completed_jobs[slots[s].job.job_id].status = "completed"
        /\ slots[s].job.job_id \notin active_jobs

\* C14: the registration state starts unregistered; it changes only from
\* unregistered to registered and only in a registration attempt that
\* succeeds; a registered agent sends no registration; a failed attempt
\* leaves the agent unregistered at the top of the loop, and an unregistered
\* agent is always there, where its only step is the next attempt.
C14_RegistrationState ==
    /\ ~is_registered
    /\ [](~is_registered => mpc = "top")
    /\ [][/\ is_registered' # is_registered
                 => (~is_registered /\ is_registered' /\ MainRegister(TRUE))
          /\ \A ok \in BOOLEAN : MainRegister(ok) => ~is_registered
          /\ MainRegister(FALSE) => (~is_registered' /\ mpc' = "top")]_vars

\* C14 witness: a registered agent is back at the top of the loop, in a later
\* iteration, with results of earlier iterations waiting.
C14_Witness ==
    /\ is_registered
    /\ mpc = "top"
    /\ CompletedIds # {}

\* C15: a job request goes to the server only from the gates of request_jobs
\* and only when has_capacity(), can_accept_jobs() and the scheduling window
\* all answered true; the capacity of the request is
\* get_available_capacity(); when a gate answers false request_jobs returns
\* with nothing to add, no request and no error.
C15_RequestGated ==
    [][/\ \A accept, window \in BOOLEAN :
              MainRequest(accept, window)
                  => IF HasCapacity /\ accept /\ window
                     THEN mpc' = "capacity"
                     ELSE mpc' = "add" /\ jobs_left' = 0 /\ capacity' = 0
       /\ (mpc' = "capacity" /\ mpc # "capacity")
              => (mpc = "request" /\ HasCapacity)
       /\ (mpc' = "await_jobs" /\ mpc # "await_jobs")
              => (mpc = "capacity" /\ capacity' = AvailableCapacity)]_vars

\* C15 witness: a job request with capacity concurrent_jobs is with the
\* server while a result of an earlier job waits in the completed set.
C15_Witness ==
    /\ mpc = "await_jobs"
    /\ capacity = ConcurrentJobs
    /\ CompletedIds # {}

\* C16: the main loop ends only at its loop test, with is_running false, and
\* is_running becomes false only by a stop request; an exception that reaches
\* the except branch of the loop leads to the backoff sleep and from there to
\* the next iteration.
C16_LoopEndsOnlyOnStop ==
    [][/\ (mpc' = "join" /\ mpc # "join") => (mpc = "top" /\ ~is_running)
       /\ (is_running /\ ~is_running') => AgentStop
       /\ MainRaise => mpc' = "backoff"
       /\ (mpc = "backoff" /\ mpc' # "backoff") => mpc' = "top"]_vars

\* C16 witness: an exception has reached the except branch of the main loop
\* while the agent runs and a result waits to be reported.
C16_Witness ==
    /\ mpc = "backoff"
    /\ is_running
    /\ CompletedIds # {}

C18_ShutdownCompletes == (~is_running) ~> (mpc = "done" /\ dpc = "exited")

\* The mean of history h is above limit (an empty history has the mean 0.0
\* the averages start with).
MeanExceeds(h, limit) == h # <<>> /\ Sum(h) > limit * Len(h)

\* C19: can_accept_jobs() is false exactly when the mean of the CPU history
\* is above max_cpu_percent, or the mean of the memory history is above
\* max_memory_percent, or the latest free-disk reading is below
\* min_free_disk_space_mb; a value equal to its threshold does not refuse.
C19_CanAcceptJobs ==
    CanAcceptJobs = ~(\/ MeanExceeds(cpu_history, MaxCpuPercent)
                      \/ MeanExceeds(memory_history, MaxMemoryPercent)
                      \/ current_free_disk_space_mb < MinFreeDiskSpaceMb)

\* C19 witness: all three values are exactly at their thresholds and
\* can_accept_jobs() answers true.
C19_Witness ==
    /\ Len(cpu_history) = HistorySize
    /\ Sum(cpu_history) = MaxCpuPercent * HistorySize
    /\ Sum(memory_history) = MaxMemoryPercent * HistorySize
    /\ current_free_disk_space_mb = MinFreeDiskSpaceMb
    /\ CanAcceptJobs

\* The latest history_size CPU samples are in the history and all satisfy
\* the comparison with max_cpu_percent (above: all above; otherwise: all at
\* or below).
LatestCpuSamples(above) ==
    LET n == Len(cpu_history) IN
    /\ n >= HistorySize
    /\ \A i \in (n - HistorySize + 1)..n :
           IF above THEN cpu_history[i] > MaxCpuPercent
                    ELSE cpu_history[i] <= MaxCpuPercent

\* C20: with memory and disk within their limits, after history_size samples
\* in a row above max_cpu_percent can_accept_jobs() is false, and after
\* history_size samples in a row at or below it can_accept_jobs() is true,
\* whatever was sampled before: the window has rolled over.
C20_WindowRollsOver ==
    (/\ ~Exceeds(avg_memory_percent, MaxMemoryPercent)
     /\ current_free_disk_space_mb >= MinFreeDiskSpaceMb)
        => /\ LatestCpuSamples(TRUE) => ~CanAcceptJobs
           /\ LatestCpuSamples(FALSE) => CanAcceptJobs

\* C20 witness: the window holds history_size samples at or below the
\* limit, the latest one right at the limit, memory and disk are within
\* limits and can_accept_jobs() answers true.
C20_Witness ==
    /\ LatestCpuSamples(FALSE)
    /\ cpu_history[Len(cpu_history)] = MaxCpuPercent
    /\ cpu_history[1] < MaxCpuPercent
    /\ ~Exceeds(avg_memory_percent, MaxMemoryPercent)
    /\ current_free_disk_space_mb >= MinFreeDiskSpaceMb
    /\ CanAcceptJobs

\* C21: a turn of the sampling loop in which a reading raises leaves the
\* free-disk value, both histories and both averages as they were and takes
\* the thread to its sleep, from which the next turn starts; the two
\* histories never differ in length and each average is the one of its
\* history, so no half of an update can be seen.
C21_FailedSampleKeepsAll ==
    /\ [][(\E cpu \in CpuSamples : MonitorSampleFails(cpu))
            => /\ UNCHANGED <<cpu_history, memory_history, current_free_disk_space_mb,
                              avg_cpu_percent, avg_memory_percent>>
               /\ monitor_pc' = "sleep"]_vars
    /\ [](/\ Len(cpu_history) = Len(memory_history)
          /\ cpu_history # <<>> => avg_cpu_percent = Average(cpu_history)
          /\ memory_history # <<>> => avg_memory_percent = Average(memory_history)
          /\ (monitor_pc = "sleep" /\ MonitorRunning) => ENABLED MonitorWake)

\* C21 witness: the very first turn has failed: the thread sleeps, and the
\* values are those of the construction.
C21_Witness ==
    /\ monitor_pc = "sleep"
    /\ cpu_history = <<>>
    /\ memory_history = <<>>
    /\ current_free_disk_space_mb = 0
    /\ avg_cpu_percent = ZeroAvg

\* The minute of the day an "HH:MM" text stands for.
MinuteOf(text) == (text[1] * 10 + text[2]) * 60 + text[3] * 10 + text[4]

\* C22: with working_hours_only false the window check answers true; with it
\* true it answers true exactly when the day is a working day and the time is
\* inside the window: for an end earlier than the start (overnight) at or
\* after the start or at or before the end, otherwise from the start to the
\* end.  For working days [Monday], start 18:00 and end 08:00: Monday 20:00
\* and Monday 07:00 are inside, Tuesday 10:00 is outside.
C22_SchedulingWindow ==
    LET t == MinuteOf(now.time)
        from == MinuteOf(scheduling.start)
        to == MinuteOf(scheduling.end)
        inside == IF to < from THEN t >= from \/ t <= to
                               ELSE from <= t /\ t <= to
        example == /\ scheduling.working_hours_only
                   /\ scheduling.working_days = {"Monday"}
                   /\ from = 18 * 60
                   /\ to = 8 * 60
    IN  /\ now # NoCall
               => can_process = (scheduling.working_hours_only
                                   => (now.day \in scheduling.working_days /\ inside))
        /\ (example /\ now.day = "Monday" /\ t = 20 * 60) => can_process
        /\ (example /\ now.day = "Monday" /\ t = 7 * 60) => can_process
        /\ (example /\ now.day = "Tuesday" /\ t = 10 * 60) => ~can_process

\* C22 witness: Monday 07:00 in the overnight window from 18:00 to 08:00 of a
\* node that works on Mondays only: inside.
C22_Witness ==
    /\ scheduling = [working_hours_only |-> TRUE, working_days |-> {"Monday"},
                     start |-> Strftime(18 * 60), end |-> Strftime(8 * 60)]
    /\ now = [day |-> "Monday", time |-> Strftime(7 * 60)]
    /\ can_process

\* C23: when the execution of an accepted job with valid parameters returns
\* its payload, the completed set holds under the job_id a result with status
\* "completed" and that payload, and the job_id is neither in the queue nor
\* in the active set any more.
C23_RoundTrip ==
    [][\A s \in SlotIds :
          (ExecReturn(s, "returns") /\ slots[s].job.parameters = "valid")
              => LET j == slots[s].job.job_id IN
                 /\ completed_jobs'[j] =
                        [status |-> "completed", result |-> j, error |-> ""]
                 /\ j \notin active_jobs'
                 /\ \A i \in 1..Len(job_queue') : job_queue'[i].job_id # j]_vars

\* C24: an exception of the parameter validation, of the input preparation
\* or of the processing does not leave execute(): the call returns a result
\* with status "failed" that carries the message of the exception, and the
\* slot stores it in the completed set under the job_id on its normal path.
C24_ExceptionBecomesFailedResult ==
    [][\A s \in SlotIds, proc \in ProcessOutcomes :
          (ExecReturn(s, proc) /\ (slots[s].job.parameters # "valid" \/ proc = "raises"))
              => LET jd == slots[s].job IN
                 /\ completed_jobs'[jd.job_id].status = "failed"
                 /\ completed_jobs'[jd.job_id].result = ""
                 /\ completed_jobs'[jd.job_id].error =
                        (IF jd.parameters # "valid" THEN "validation" ELSE "process")
                 /\ jd.job_id \notin active_jobs'
                 /\ slots'[s] = [job |-> jd, stage |-> "finally"]]_vars

\* C24 witness: the completed set holds the failed result of a job whose
\* processing raised and that of a job whose validation raised.
C24_Witness ==
    /\ completed_jobs["j1"] = [status |-> "failed", result |-> "", error |-> "process"]
    /\ completed_jobs["j2"] = [status |-> "failed", result |-> "", error |-> "validation"]

\* The main thread is inside a call to the server: the status notification
\* of add_job, or the job request.
ServerCallInProgress == mpc \in {"notify", "await_jobs"}

\* C25: the ledger lock is never held while a call to the server (status
\* notification, job request, result report) is in progress or a capability
\* is executing: the only holder across steps is the main thread, and it is
\* then not inside a call to the server.
C25_LockOnlyForLedger == ~(LockHeldByMain /\ ServerCallInProgress)

C27_FlushIsCopy ==
    [][/\ MainFlush => (completed_jobs' = completed_jobs /\ snapshot' = completed_jobs)
       /\ \A j \in JobIds : MainReport(j, FALSE) => completed_jobs' = completed_jobs
       /\ \A s \in SlotIds, proc \in ProcessOutcomes :
              ExecReturn(s, proc) => snapshot' = snapshot]_vars

\* C27 witness: in the middle of a flush the returned map and the completed
\* set differ: the completed set holds a result the returned map holds no
\* more (or never held), and the returned map still has an entry to report.
C27_Witness ==
    /\ mpc = "report"
    /\ \E j \in JobIds : completed_jobs[j] # NoResult /\ snapshot[j] = NoResult
    /\ \E k \in JobIds : snapshot[k] # NoResult /\ snapshot[k] = completed_jobs[k]

\* C28: a deletion of the job directory that fails changes nothing of the
\* queue, the active set and the completed set, holds up neither the
\* dispatcher nor the main loop, and leaves the worker free as a deletion
\* that works does; no slot is ever left in between.
C28_CleanupFailureHarmless ==
    /\ [][\A s \in SlotIds :
              SlotFinallyCleanupFails(s)
                  => /\ slots'[s] = IdleSlot
                     /\ UNCHANGED <<ledger, dispatcherVars, work_queue, mainVars>>]_vars
    /\ [](\A s \in SlotIds : slots[s].stage \in {"idle", "run", "finally"})

\* C28 witness: the directory of j1 was left behind by a failed deletion: its
\* result is in the completed set, it is not active, nothing holds it any
\* more, and the worker is running the next job.
C28_Witness ==
    /\ "j1" \in job_dirs
    /\ DirHolders("j1") = 0
    /\ completed_jobs["j1"].status = "completed"
    /\ "j1" \notin active_jobs
    /\ \E s \in SlotIds : slots[s].job.job_id = "j2" /\ slots[s].stage = "run"

RECURSIVE TotalUpTo(_, _)
\* h[1] + ... + h[n].
TotalUpTo(h, n) == IF n = 0 THEN 0 ELSE TotalUpTo(h, n - 1) + h[n]

\* History `after` is history `before` with sample x arrived: x is its last
\* entry, before it stand the latest entries of `before` in their order, and
\* the length is the smaller of the old length plus one and history_size.
Arrived(before, x, after) ==
    LET n == IF Len(before) + 1 < HistorySize THEN Len(before) + 1 ELSE HistorySize
        cut == Len(before) + 1 - n
    IN  /\ Len(after) = n
        /\ after[n] = x
        /\ \A i \in 1..(n - 1) : after[i] = before[i + cut]

\* C29: the two histories always have the same length, at most history_size;
\* every successful sample arrives in both as their last entry, pushing the
\* oldest out of a full history, so after n samples they hold the latest
\* min(n, history_size) in arrival order; each average is the arithmetic mean
\* of its history; the free-disk value is the latest reading itself.
C29_HistoryAndAverages ==
    /\ [](/\ Len(cpu_history) = Len(memory_history)
          /\ Len(cpu_history) <= HistorySize
          /\ \A pair \in {<<cpu_history, avg_cpu_percent>>,
                           <<memory_history, avg_memory_percent>>} :
                 pair[1] # <<>>
                     => pair[2].sum * Len(pair[1])
                            = TotalUpTo(pair[1], Len(pair[1])) * pair[2].n)
    /\ [][\A cpu \in CpuSamples, mem \in MemorySamples, disk \in DiskSamples :
              MonitorSample(cpu, mem, disk)
                  => /\ Arrived(cpu_history, cpu, cpu_history')
                     /\ Arrived(memory_history, mem, memory_history')
                     /\ current_free_disk_space_mb' = disk]_vars

\* C29 witness: after at least history_size samples the newest CPU sample is
\* the last entry of a full history whose entries differ, with the averages
\* of both histories and the latest disk reading.
C29_Witness ==
    /\ Len(cpu_history) = HistorySize
    /\ cpu_history[1] = 60
    /\ cpu_history[Len(cpu_history)] = 95
    /\ avg_cpu_percent = [sum |-> TotalUpTo(cpu_history, HistorySize), n |-> HistorySize]
    /\ memory_history[Len(memory_history)] = 50
    /\ current_free_disk_space_mb = 999
    /\ monitor_pc = "sleep"

\* The job_ids whose assignments the factory cannot create a job for.
Uncreatable == {jd.job_id : jd \in {a \in Assignments : ~CanCreateJob(a)}}

\* C30: a job whose job_type is missing or not registered is never in the
\* active set, never waits in the pool and never runs in a slot; when the
\* dispatcher finds one it drops it and is back at the top of its loop, free
\* for the jobs that follow in the queue.
C30_UnknownTypeDropped ==
    /\ [](/\ active_jobs \cap Uncreatable = {}
          /\ \A i \in 1..Len(work_queue) : CanCreateJob(work_queue[i])
          /\ \A s \in SlotIds : slots[s].stage # "idle" => CanCreateJob(slots[s].job))
    /\ [][(DispatchPrepare /\ ~CanCreateJob(job_data))
              => /\ dpc' = "check"
                 /\ job_data' = NoJob
                 /\ UNCHANGED <<ledger, poolVars>>]_vars

\* C30 witness: the dispatcher has dropped j4 (its directory is still there,
\* nothing holds it) and is now submitting j1, which followed it.
C30_Witness ==
    /\ "j4" \in job_dirs
    /\ DirHolders("j4") = 0
    /\ TimesQueued("j4") = 0
    /\ dpc = "submit"
    /\ job_data.job_id = "j1"
    /\ "j1" \in active_jobs

\* C31: for a result with status "failed" the message send_job_result sends
\* carries the failure: its payload has status "failed" and includes the
\* error message and details of the result.
C31_FailedPayloadCarriesError ==
    (message # NoMessage /\ result_data.status = "failed")
        => /\ message.payload.status = "failed"
           /\ "error" \in DOMAIN message.payload
           /\ message.payload.error = result_data.error

\* C37: a report attempt does not change the stored result: after
\* send_job_result returned, with success or with failure, the result the
\* completed set holds equals what it was before the call, and what was sent
\* is that result, so a retry sends the same.
C37_ReportKeepsStoredResult ==
    [][\A j \in JobIds, ws \in BOOLEAN, out \in SendOutcomes :
          SendJobResult(j, ws, out)
              => /\ result_data' = result_data
                 /\ message'.payload.result = Get(result_data, "result", EmptyDict)
                 /\ message'.payload.status = result_data.status]_vars

\* A failed attempt to send an OCR result whose text went over the limit.
C37_Witness ==
    /\ send_ret = "false"
    /\ message # NoMessage
    /\ TooLarge(message.payload)
    /\ result_data.status = "completed"

\* C32 (as claimed): each job_id is executed at most once.  A result is
\* written under a job_id only by an execution of that job_id, so the claim
\* requires that no worker enters execute() for a job_id whose result is in
\* the completed set or that has another execution still to end.
C32_ExecutedAtMostOnce ==
    [][\A s \in SlotIds :
          PoolStart(s)
              => LET j == Head(work_queue).job_id IN
                 /\ j \notin CompletedIds
                 /\ Executions(j) = 1]_vars

\* C33 (as claimed): with a server that returns at most the requested
\* capacity on each request, the number of queued jobs plus active jobs never
\* exceeds concurrent_jobs.
C33_UnfinishedWithinLimit ==
    Len(job_queue) + Cardinality(active_jobs) <= ConcurrentJobs

\* C34 (as claimed): every request_jobs call sent to the server carries a
\* capacity between 1 and concurrent_jobs.
C34_RequestedCapacityPositive ==
    mpc = "await_jobs" => (capacity >= 1 /\ capacity <= ConcurrentJobs)

\* C35: while the agent is unregistered it sends no heartbeat, requests no
\* jobs and reports no results: every step of the heartbeat, of request_jobs
\* and of process_job_results is taken by a registered agent, in an iteration
\* that started registered or whose registration has just succeeded.
C35_NothingSentUnregistered ==
    [][(\/ \E out \in CallOutcomes : MainHeartbeat(out)
        \/ \E accept, window \in BOOLEAN : MainRequest(accept, window)
        \/ MainCapacity
        \/ \E n \in 0..MaxBatch : MainJobsReceived(n)
        \/ \E jd \in Assignments : MainAdd(jd)
        \/ MainFlush
        \/ \E j \in JobIds, ok \in BOOLEAN : MainReport(j, ok)
        \/ MainRemove)
            => is_registered]_vars

\* The heartbeat step of the iteration whose registration has just succeeded,
\* with nothing requested or reported so far.
C35_Witness ==
    /\ mpc = "heartbeat"
    /\ is_registered
    /\ job_queue = <<>>
    /\ CompletedIds = {}

\* C36: until the first sample has been recorded can_accept_jobs() returns
\* false, min_free_disk_space_mb being above 0 and the free-disk reading
\* starting at 0, so no job request passes the gates and none is sent before
\* the node has measured its resources at least once.
C36_NoRequestBeforeFirstSample ==
    /\ [](cpu_history = <<>>
            => /\ current_free_disk_space_mb = 0
               /\ (MinFreeDiskSpaceMb > 0 => ~CanAcceptJobs)
               /\ mpc \notin {"capacity", "await_jobs"}
               /\ job_queue = <<>>)
    /\ [][(mpc = "request" /\ mpc' = "capacity") => cpu_history # <<>>]_vars

\* A first iteration of a registered agent has gone through request_jobs and
\* is flushing results while the monitor, whose first turn failed, has not
\* recorded a sample yet.
C36_Witness ==
    /\ cpu_history = <<>>
    /\ monitor_pc = "sleep"
    /\ is_registered
    /\ mpc = "report"

\* JobManager.stop() has returned: run() is at or past ResourceMonitor.stop().
StopReturned == mpc \in {"monitor_stop", "done"}

\* C38 (as claimed): after JobManager.stop() has returned no execution is
\* running or waiting in the pool, no job is dequeued or added to the active
\* set any more, and no execution starts: the jobs in the queue stay there.
C38_NothingAfterStop ==
    /\ [](StopReturned
            => /\ work_queue = <<>>
               /\ \A s \in SlotIds : slots[s].stage = "idle")
    /\ [][StopReturned
            => /\ job_queue' = job_queue
               /\ active_jobs' \subseteq active_jobs
               /\ UNCHANGED poolVars]_vars

\* C39: within one flush cycle every job of the snapshot taken at the start
\* of process_job_results gets exactly one report attempt, whether the
\* attempts for other jobs succeed, fail or raise: an attempt is made for a
\* job still to be iterated and takes exactly that job off the jobs to be
\* iterated (a successful one after its removal), nothing else takes a job
\* off, the cycle goes on after a failed attempt and ends only when no job
\* of the snapshot is left; and while jobs are left an attempt is possible
\* for each of them.
C39_OneAttemptPerSnapshotJob ==
    /\ [][/\ \A j \in JobIds :
                MainReport(j, FALSE)
                    => (j \in Pending /\ Pending' = Pending \ {j} /\ mpc' = "report")
          /\ \A j \in JobIds :
                MainReport(j, TRUE)
                    => (j \in Pending /\ Pending' = Pending /\ acked' = j
                          /\ mpc' = "report")
          /\ MainRemove => (Pending' = Pending \ {acked} /\ mpc' = "report")
          /\ (mpc = "report" /\ Pending' # Pending)
                => (MainRemove \/ \E j \in JobIds : MainReport(j, FALSE))
          /\ (mpc = "report" /\ mpc' # "report")
                => (Pending = {} /\ acked = NoId)]_vars
    /\ [](mpc = "report" /\ acked = NoId
            => \A j \in Pending : ENABLED MainReport(j, FALSE) /\ ENABLED MainReport(j, TRUE))

\* The report of one job of a snapshot of two has been answered and the other
\* job of the snapshot is still to be attempted.
C39_Witness ==
    /\ mpc = "report"
    /\ acked # NoId
    /\ Cardinality(Pending) = 2

\* C40: add_job with job data that has no job_id, missing or empty, returns
\* False and leaves the queue, the active set and the completed set as they
\* were; no status notification follows.
C40_NoJobIdRejected ==
    [][\A jd \in Assignments :
          (MainAdd(jd) /\ jd.job_id = NoId)
              => /\ add_job_ret' = "false"
                 /\ job_queue' = job_queue
                 /\ active_jobs' = active_jobs
                 /\ completed_jobs' = completed_jobs
                 /\ mpc' # "notify"]_vars

\* add_job has just returned False for an assignment without job_id while an
\* earlier assignment of the same response waits in the queue.
C40_Witness ==
    /\ mpc = "add"
    /\ job # NoJob
    /\ job.job_id = NoId
    /\ add_job_ret = "false"
    /\ job_queue # <<>>

====
